---- MODULE Spec2Model ----
(***************************************************************************)
(* Chunked voxel-wise operations of scilpy/reconst/multi_processes.py and  *)
(* the seed generators of scilpy/tracking (seed.py, trackable_dataset.py). *)
(*                                                                         *)
(* A 4-D volume is held as the list of its voxels in the order numpy's     *)
(* boolean indexing visits them (C order over x, y, z); every voxel is a   *)
(* row of NChan channel values.  Arrays are 1-based sequences: compact     *)
(* position p of the code is element p + 1, chunk_len[i] is chunkLen[i+1]. *)
(***************************************************************************)
EXTENDS Integers, Sequences, FiniteSets, TLC

\* ------------------------------------------------------------------ bounds
NVox == 3
MaxProc == 3
CpuCount == 2
MaxM == 9
MaxK == 6
MaxSeedVox == 3
MaxRngSeed == 1
MaxSkip == 2
MaxMade == 2
MaxDim == 2
MaxOut == 2

\* ------------------------------------------------------ program constants
\* the random numbers discarded at a time by the skip loop
DiscardBatch == 100000

\* ------------------------------------------------------------ value domains
\* -np.inf, below every amplitude of the model
NegInf == -999

Ops == {"fit_from_model", "peaks_from_sh", "maps_from_sh",
        "convert_sh_basis", "convert_sh_to_sf", "fit_gamma"}

\* Channel rows: all zero; nonzero channels that cancel; nonzero with a
\* nonzero sum.
Rows == {<<0, 0>>, <<1, -1>>, <<1, 2>>}
ZeroRow == <<0, 0>>

\* The rows of fit_from_model: two different rows with a nonzero sum.
FitRows == Rows \cup {<<2, 1>>}

\* model.fit raises cvx.error.SolverError on the rows of a model: on none, or
\* on the row <<2, 1>>.
SolverChoices == {{}, {<<2, 1>>}}

Voxels == 1..NVox
Volumes == [Voxels -> Rows]
FitVolumes == [Voxels -> FitRows]

\* The shape of a mask array against the volume's spatial shape (NVox, 1, 1):
\* the same; longer along the first axis; or with fewer axes, (NVox,).
MaskShapes == {"same", "longer", "fewer"}
Masks == [Voxels -> BOOLEAN]

\* mask=None, or a mask array
NoMask == [given |-> FALSE, m |-> [v \in Voxels |-> FALSE]]
MaskArgs == {NoMask} \cup {[given |-> TRUE, m |-> f] : f \in Masks}

\* The nbr_processes argument: not passed, None, or an integer.
NotPassedNbr == [passed |-> FALSE, given |-> FALSE, n |-> 0]
NoNbr == [passed |-> TRUE, given |-> FALSE, n |-> 0]
IntNbr(k) == [passed |-> TRUE, given |-> TRUE, n |-> k]
NbrArgs == {NotPassedNbr, NoNbr} \cup {IntNbr(k) : k \in -1..MaxProc}

\* One peak per voxel (npeaks = 1): value and sphere index (-1: no peak).
NoPeak == [val |-> 0, ind |-> -1]
PeakChoices == {NoPeak, [val |-> 1, ind |-> 0]}
NoPeaks == [v \in Voxels |-> NoPeak]
GfaThrChoices == {0, 1}

\* ---------------------------------------------------------------- numbers
\* max() over the integers extended by -inf
NumMax(a, b) == IF a >= b THEN a ELSE b

RECURSIVE SeqMax(_)
SeqMax(s) == IF s = <<>> THEN NegInf ELSE NumMax(Head(s), SeqMax(Tail(s)))

RECURSIVE SeqSum(_)
SeqSum(s) == IF s = <<>> THEN 0 ELSE Head(s) + SeqSum(Tail(s))

Range(s) == {s[i] : i \in DOMAIN s}

SeqMin(s) == CHOOSE x \in Range(s) : \A y \in Range(s) : x <= y

RECURSIVE GCD(_, _)
GCD(a, b) == IF b = 0 THEN a ELSE GCD(b, a % b)

\* The quotient n / d of floating point division for n >= 0 and d >= 0 or
\* d = -inf, as a reduced fraction: 0 / 0 is nan, n / 0 is inf, n / -inf is
\* (minus) zero.
Frac(n, d) ==
    IF d = NegInf THEN <<"frac", 0, 1>>
    ELSE IF d = 0 THEN (IF n = 0 THEN <<"nan", 0, 0>> ELSE <<"frac", 1, 0>>)
    ELSE LET g == GCD(n, d) IN <<"frac", n \div g, d \div g>>

\* ndarray.any() of one row
RowAny(row) == \E c \in DOMAIN row : row[c] # 0

\* np.sum(data, axis=3).astype(bool) at one voxel
RowSumBool(row) == SeqSum(row) # 0

\* ------------------------------------------------------------------- masks
\* The mask a call works with, from the caller's mask argument.
\* fit_from_model multiplies a supplied mask by the derived one; the other
\* operations take a supplied mask as it is.
EffectiveMask(o, vol, um) ==
    IF ~um.given
    THEN [v \in Voxels |-> RowSumBool(vol[v])]
    ELSE IF o = "fit_from_model"
         THEN [v \in Voxels |-> um.m[v] /\ RowSumBool(vol[v])]
         ELSE um.m

\* What the caller's mask object holds after the mask step: "mask *= mask_any"
\* of fit_from_model writes into the caller's array; "mask = ..." of the
\* branch without a mask only rebinds the local name.
CallerMaskAfter(o, vol, um) ==
    IF um.given /\ o = "fit_from_model"
    THEN [um EXCEPT !.m = [v \in Voxels |-> um.m[v] /\ RowSumBool(vol[v])]]
    ELSE um

\* The exception of the mask step and of the boolean indexing data[mask] for a
\* mask array of another shape than the volume's; no operation compares the
\* shapes itself.  In fit_from_model "mask *= mask_any" cannot broadcast
\* (ValueError), except that a single-voxel mask_any broadcasts over a longer
\* mask; data[mask] raises IndexError for a mask longer than the volume and
\* indexes the leading axis with a mask of fewer axes.
MaskStepRaises(o, um, shape) ==
    IF ~um.given \/ shape = "same" THEN "none"
    ELSE IF o = "fit_from_model"
         THEN (IF shape = "longer" /\ NVox = 1 THEN "IndexError" ELSE "ValueError")
         ELSE (IF shape = "longer" THEN "IndexError" ELSE "none")

\* array[mask] = tmp_array with a mask of fewer axes than the array: the rows
\* of tmp broadcast over the indexed rows only when there is exactly one.
ScatterRaises(um, shape, count) ==
    IF um.given /\ shape = "fewer" /\ count # 1 THEN "ValueError" ELSE "none"

\* nbr_processes after each operation's own defaulting, as it reaches
\* np.array_split: an integer or None.  Five operations have the default
\* argument None and replace None in the body; convert_sh_to_sf has the
\* default argument cpu_count() and no defaulting in the body, so a None that
\* is passed stays None.
ResolveNbr(o, nbr) ==
    CASE o \in {"fit_from_model", "fit_gamma"} ->
            IF ~nbr.given \/ nbr.n <= 0 THEN IntNbr(CpuCount) ELSE IntNbr(nbr.n)
      [] o \in {"peaks_from_sh", "maps_from_sh", "convert_sh_basis"} ->
            IF ~nbr.given \/ nbr.n < 0 THEN IntNbr(CpuCount) ELSE IntNbr(nbr.n)
      [] OTHER ->
            IF ~nbr.passed THEN IntNbr(CpuCount)
            ELSE IF ~nbr.given THEN NoNbr
            ELSE IntNbr(nbr.n)

\* The exception of np.array_split(ary, n): int(None) raises TypeError, a
\* section count <= 0 raises ValueError.
ArraySplitRaises(k) ==
    IF ~k.given THEN "TypeError"
    ELSE IF k.n <= 0 THEN "ValueError"
    ELSE "none"

\* ------------------------------------------------------------------- split
\* arr[mask]: the masked elements in scan order.
RECURSIVE CompactFrom(_, _, _)
CompactFrom(arr, m, v) ==
    IF v > NVox THEN <<>>
    ELSE (IF m[v] THEN <<arr[v]>> ELSE <<>>) \o CompactFrom(arr, m, v + 1)

Compact(arr, m) == CompactFrom(arr, m, 1)

\* The voxels of the compact positions of mask m, in order.
MaskedVoxels(m) == Compact([v \in Voxels |-> v], m)

\* np.count_nonzero(mask)
CountNonzero(m) == Cardinality({v \in Voxels : m[v]})

\* A split that gives every section total div n elements and the remainder to
\* the last one.
SectionSizesRestToLast(total, n) ==
    [i \in 1..n |-> IF i = n THEN (total \div n) + (total % n) ELSE total \div n]

\* A split that gives the extra rows to the last sections.
SectionSizesExtraLast(total, n) ==
    [i \in 1..n |-> IF i > n - (total % n) THEN (total \div n) + 1 ELSE total \div n]

\* np.array_split(ary, n) for n >= 1: its section sizes.
SectionSizes(total, n) ==
    [i \in 1..n |-> IF i <= total % n THEN (total \div n) + 1 ELSE total \div n]

\* np.cumsum([0] + sizes)
RECURSIVE CumSumFrom(_, _)
CumSumFrom(acc, s) ==
    IF s = <<>> THEN <<acc>> ELSE <<acc>> \o CumSumFrom(acc + Head(s), Tail(s))

CumSum0(sizes) == CumSumFrom(0, sizes)

ArraySplit(ary, n) ==
    LET div == CumSum0(SectionSizes(Len(ary), n))
    IN  [i \in 1..n |-> SubSeq(ary, div[i] + 1, div[i + 1])]

ChunkLen(chs) == CumSum0([i \in DOMAIN chs |-> Len(chs[i])])

\* ------------------------------------------------- per-voxel computations
\* The numerical content of a voxel function is outside the engine; a result
\* is kept as a term over the voxel's own row, so that two results are equal
\* exactly when they were computed from equal inputs.  The SH-to-SF matrix B
\* is the identity on two sphere directions, the x and the y axis.
Zero == <<"zero", ZeroRow>>

\* np.dot(shm_coeff[idx], B) with the negative amplitudes set to 0
\* (odf.clip(min=0); odf[odf < absolute_threshold] = 0 with threshold 0).
Odf(row) == [c \in DOMAIN row |-> IF row[c] < 0 THEN 0 ELSE row[c]]

\* dipy's gfa(odf), kept as the fraction gfa^2 (0 for a zero odf).
GfaNum(odf) == (odf[1] - odf[2]) * (odf[1] - odf[2])
GfaDen(odf) == odf[1] * odf[1] + odf[2] * odf[2]
Gfa(odf) == IF GfaDen(odf) = 0 THEN Frac(0, 1) ELSE Frac(GfaNum(odf), GfaDen(odf))

\* gfa_map[idx] < gfa_thr, for gfa_thr >= 0
GfaLess(odf, thr) ==
    IF GfaDen(odf) = 0 THEN 0 < thr
    ELSE GfaNum(odf) < thr * thr * GfaDen(odf)

\* rgb_map[idx] of lines 269-271: the unit vector along |vertices|.T odf,
\* times sum_odf, kept as <<direction, numerator, denominator>>.
Direction(odf) ==
    LET g == GCD(odf[1], odf[2])
    IN  IF g = 0 THEN ZeroRow ELSE [c \in DOMAIN odf |-> odf[c] \div g]

RgbZero == <<"rgb", ZeroRow, 0, 1>>
Rgb(odf) == <<"rgb", Direction(odf), SeqSum(odf), 1>>

\* rgb / den (the factor 255 is common to all voxels)
RgbDiv(rgb, den) ==
    LET f == Frac(rgb[3], den)
    IN  IF f[1] = "nan" THEN <<"nan", ZeroRow, 0, 0>>
        ELSE IF f[2] = 0 THEN RgbZero
        ELSE <<"rgb", rgb[2], f[2], f[3]>>

\* dipy's peak_directions on the odf: the largest positive amplitude, if any.
PeakOf(odf) ==
    LET m == SeqMax(odf)
    IN  IF m > 0
        THEN [val |-> m, ind |-> (CHOOSE c \in DOMAIN odf : odf[c] = m) - 1]
        ELSE NoPeak

\* ------------------------------------------------------- per-chunk workers
\* Every worker returns [chunk_id, out, qa, max_odf, global_max]; the last
\* three are used by maps_from_sh only.  qa is an array of rows (kind
\* "array") or one row (kind "row", rows = <<the row>>).
EmptyQa == [kind |-> "array", rows |-> <<>>]

PlainResult(chunk_id, out) ==
    [chunk_id |-> chunk_id, out |-> out, qa |-> EmptyQa,
     max_odf |-> 0, global_max |-> NegInf]

\* MSDeconvFit(model, coeff, None) with coeff full of NaN
Sentinel == <<"nan_fit", ZeroRow>>

\* A worker whose loop ends at the first SolverError: the failing row holds
\* the sentinel and the rows after it are left at zero.
fit_from_model_parallel_abort(model, data, chunk_id) ==
    PlainResult(chunk_id,
        [i \in DOMAIN data |->
            IF \E k \in 1..(i - 1) : RowAny(data[k]) /\ data[k] \in model
            THEN Zero
            ELSE IF ~RowAny(data[i]) THEN Zero
            ELSE IF data[i] \in model THEN Sentinel
            ELSE <<"fit", data[i]>>])

\* model is the set of rows on which model.fit raises SolverError.
fit_from_model_parallel(model, data, chunk_id) ==
    PlainResult(chunk_id,
        [i \in DOMAIN data |->
            IF ~RowAny(data[i]) THEN Zero
            ELSE IF data[i] \in model THEN Sentinel
            ELSE <<"fit", data[i]>>])

\* the rows peaks_from_sh_parallel starts from (peak_indices filled with -1)
PeaksDefault == [dirs |-> -1, values |-> 0, indices |-> -1]

\* peak_dirs of a peak is the sphere vertex of its index; -1 is the zero vector
peaks_from_sh_parallel(shm_coeff, chunk_id) ==
    PlainResult(chunk_id,
        [idx \in DOMAIN shm_coeff |->
            IF RowAny(shm_coeff[idx])
            THEN LET pk == PeakOf(Odf(shm_coeff[idx]))
                 IN  IF pk.ind # -1
                     THEN [dirs |-> pk.ind, values |-> pk.val, indices |-> pk.ind]
                     ELSE PeaksDefault
            ELSE PeaksDefault])

MapsDefault == [nufo |-> 0, afd_max |-> 0, afd_sum_sq |-> 0, rgb |-> RgbZero,
                gfa |-> Frac(0, 1)]

\* One pass of the loop of maps_from_sh_parallel over idx.  acc holds the
\* arrays built so far (out), qa_map, max_odf and global_max.  qa_map starts
\* as an array of one zero row per voxel; line 279 rebinds the name to a
\* single row.  afd_sum is kept as its square.
MapsVoxel(acc, idx, shm, pv, pi, thr) ==
    IF ~RowAny(shm[idx]) THEN acc
    ELSE
      LET odf == Odf(shm[idx])
          sum_odf == SeqSum(odf)
          rgb == IF sum_odf > 0 THEN Rgb(odf) ELSE RgbZero
          base == [MapsDefault EXCEPT !.rgb = rgb, !.gfa = Gfa(odf)]
          max_odf == NumMax(acc.max_odf, sum_odf)
          npk == IF pi[idx] > -1 THEN 1 ELSE 0
      IN  IF GfaLess(odf, thr)
          THEN [acc EXCEPT !.out[idx] = base, !.max_odf = max_odf,
                           !.global_max = NumMax(acc.global_max, SeqMax(odf))]
          ELSE IF npk # 0
          THEN [acc EXCEPT
                  !.out[idx] = [base EXCEPT !.nufo = npk, !.afd_max = pv[idx],
                      !.afd_sum_sq = shm[idx][1] * shm[idx][1]
                                     + shm[idx][2] * shm[idx][2]],
                  !.qa = [kind |-> "row", rows |-> <<pv[idx] - SeqMin(odf)>>],
                  !.max_odf = max_odf,
                  !.global_max = NumMax(acc.global_max, pv[idx])]
          ELSE [acc EXCEPT !.out[idx] = base, !.max_odf = max_odf]

RECURSIVE MapsLoop(_, _, _, _, _, _)
MapsLoop(acc, idx, shm, pv, pi, thr) ==
    IF idx > Len(shm) THEN acc
    ELSE MapsLoop(MapsVoxel(acc, idx, shm, pv, pi, thr), idx + 1, shm, pv, pi, thr)

maps_from_sh_parallel(shm_coeff, peak_values, peak_indices, gfa_thr, chunk_id) ==
    MapsLoop([chunk_id |-> chunk_id,
              out |-> [i \in DOMAIN shm_coeff |-> MapsDefault],
              qa |-> [kind |-> "array", rows |-> [i \in DOMAIN shm_coeff |-> 0]],
              max_odf |-> 0, global_max |-> NegInf],
             1, shm_coeff, peak_values, peak_indices, gfa_thr)

convert_sh_basis_parallel(sh, chunk_id) ==
    PlainResult(chunk_id,
        [idx \in DOMAIN sh |->
            IF RowAny(sh[idx]) THEN <<"basis", sh[idx]>> ELSE <<"zero", sh[idx]>>])

convert_sh_to_sf_parallel(sh, chunk_id) ==
    PlainResult(chunk_id,
        [idx \in DOMAIN sh |->
            IF RowAny(sh[idx]) THEN <<"sf", sh[idx]>> ELSE Zero])

fit_gamma_parallel(data, chunk_id) ==
    PlainResult(chunk_id,
        [i \in DOMAIN data |->
            IF RowAny(data[i]) THEN <<"gamma", data[i]>> ELSE Zero])

\* The worker function an operation hands to pool.map, on chunk i (0-based)
\* of the zipped argument lists.
RunChunk(o, mdl, chs, pch, thr, i) ==
    CASE o = "fit_from_model"   -> fit_from_model_parallel(mdl, chs[i + 1], i)
      [] o = "peaks_from_sh"    -> peaks_from_sh_parallel(chs[i + 1], i)
      [] o = "maps_from_sh"     ->
            maps_from_sh_parallel(chs[i + 1], pch.values[i + 1],
                                  pch.indices[i + 1], thr, i)
      [] o = "convert_sh_basis" -> convert_sh_basis_parallel(chs[i + 1], i)
      [] o = "convert_sh_to_sf" -> convert_sh_to_sf_parallel(chs[i + 1], i)
      [] OTHER                  -> fit_gamma_parallel(chs[i + 1], i)

\* ------------------------------------------------------------- reassembly
\* The arrays an operation allocates with np.zeros.
DefaultOut(o) ==
    CASE o = "peaks_from_sh" -> [dirs |-> -1, values |-> 0, indices |-> 0]
      [] o = "maps_from_sh"  -> MapsDefault
      [] OTHER               -> Zero

\* The loop body with line 382's slip repeated on line 383: the running
\* global maximum takes the chunk's max_odf.
ReassembleStepMixed(o, acc, r, cl) ==
    LET lo == cl[r.chunk_id + 1]
        hi == cl[r.chunk_id + 2]
        In(p) == lo < p /\ p <= hi
    IN  [tmp |-> [p \in DOMAIN acc.tmp |->
                    IF In(p) THEN r.out[p - lo] ELSE acc.tmp[p]],
         tmpQa |-> [p \in DOMAIN acc.tmpQa |->
                    IF In(p) /\ o = "maps_from_sh"
                    THEN (IF r.qa.kind = "row" THEN r.qa.rows[1]
                          ELSE r.qa.rows[p - lo])
                    ELSE acc.tmpQa[p]],
         writes |-> [p \in DOMAIN acc.writes |->
                    IF In(p) THEN acc.writes[p] + 1 ELSE acc.writes[p]],
         max_odf |-> IF o = "maps_from_sh"
                     THEN NumMax(acc.global_max, r.max_odf) ELSE acc.max_odf,
         global_max |-> IF o = "maps_from_sh"
                        THEN NumMax(acc.global_max, r.max_odf)
                        ELSE acc.global_max]

\* One pass of the loop "for i, ... in results" over one chunk result r:
\* tmp[chunk_len[i]:chunk_len[i+1]] = r.out (a single qa row is broadcast
\* over the slice), and the two running maxima of maps_from_sh, lines
\* 382-383.  writes counts the assignments to every compact position.
ReassembleStep(o, acc, r, cl) ==
    LET lo == cl[r.chunk_id + 1]
        hi == cl[r.chunk_id + 2]
        In(p) == lo < p /\ p <= hi
    IN  [tmp |-> [p \in DOMAIN acc.tmp |->
                    IF In(p) THEN r.out[p - lo] ELSE acc.tmp[p]],
         tmpQa |-> [p \in DOMAIN acc.tmpQa |->
                    IF In(p) /\ o = "maps_from_sh"
                    THEN (IF r.qa.kind = "row" THEN r.qa.rows[1]
                          ELSE r.qa.rows[p - lo])
                    ELSE acc.tmpQa[p]],
         writes |-> [p \in DOMAIN acc.writes |->
                    IF In(p) THEN acc.writes[p] + 1 ELSE acc.writes[p]],
         max_odf |-> IF o = "maps_from_sh"
                     THEN NumMax(acc.global_max, r.max_odf) ELSE acc.max_odf,
         global_max |-> IF o = "maps_from_sh"
                        THEN NumMax(acc.global_max, r.global_max)
                        ELSE acc.global_max]

RECURSIVE ReassembleLoop(_, _, _, _)
ReassembleLoop(o, acc, rs, cl) ==
    IF rs = <<>> THEN acc
    ELSE ReassembleLoop(o, ReassembleStep(o, acc, Head(rs), cl), Tail(rs), cl)

\* The tmp arrays and the maxima after the loop over the results rs, for
\* count = np.count_nonzero(mask) compact positions.
Reassembled(o, rs, cl, count) ==
    ReassembleLoop(o,
        [tmp |-> [p \in 1..count |-> DefaultOut(o)],
         tmpQa |-> [p \in 1..count |-> 0],
         writes |-> [p \in 1..count |-> 0],
         max_odf |-> NegInf, global_max |-> NegInf],
        rs, cl)

\* array[mask] = tmp: the compact position (1-based) of a masked voxel.
PositionOf(m, v) == Cardinality({u \in Voxels : u <= v /\ m[u]})

\* The volumes an operation returns.  For maps_from_sh rgb_map is divided by
\* all_time_max_odf and qa_map by all_time_global_max, over the whole volume.
FinalVolume(o, m, acc) ==
    [v \in Voxels |->
        LET val == IF m[v] THEN acc.tmp[PositionOf(m, v)] ELSE DefaultOut(o)
            qa  == IF m[v] THEN acc.tmpQa[PositionOf(m, v)] ELSE 0
        IN  IF o = "maps_from_sh"
            THEN [main |-> [val EXCEPT !.rgb = RgbDiv(val.rgb, acc.max_odf)],
                  qa |-> Frac(qa, acc.global_max)]
            ELSE [main |-> val, qa |-> Frac(0, 1)]]

\* ------------------------------------------------------------------ state
VARIABLES
    op, data, userMask, nbrArg, peaks, gfaThr,  \* the arguments of the call
    model,            \* the rows on which model.fit raises SolverError
    maskShape,        \* the shape of the mask array, see MaskShapes
    raised,           \* the exception the call ended with, or "none"
    poolState,        \* "none", "open" (workers alive), "closed" (close, join)
    failed,           \* the chunk ids whose worker raised an exception
    callerMask,       \* what the caller's mask array holds
    pc,               \* "start", "pool", "done", "error"
    mask, nbr,        \* the local mask and nbr_processes
    chunks, peakChunks, chunkLen,
    results,          \* chunk id -> what its worker returned
    iterOrder,        \* the chunk ids in the order the results are iterated
    tmp,              \* the compact tmp_*_array after the loop
    out, allTimeMaxOdf, allTimeGlobalMax, writes

VARIABLES
    splitArgs,        \* [total, n]: an array length and a section count
    splitOut          \* [done, chunks, chunk_len] of np.array_split on them

VARIABLES
    seedClass,        \* "SeedGenerator" (seed.py) or "Seed" (trackable_dataset.py)
    nSeeds,           \* len(self.seeds)
    rngSeed,          \* random_initial_value
    hasAsscalar,      \* the installed numpy still has np.asscalar
    workers           \* per tracking process: generator, indices, seeds made

VARIABLES
    dim,              \* Dataset.dim[0:3], the spatial shape of self.data
    coord,            \* the (x, y, z) passed to getVoxelValue
    readAt            \* the index of self.data that was read, <<>> before

engineVars == <<op, data, userMask, nbrArg, peaks, gfaThr, model, maskShape,
          raised, poolState, failed, callerMask, pc, mask, nbr,
          chunks, peakChunks, chunkLen, results, iterOrder, tmp, out,
          allTimeMaxOdf, allTimeGlobalMax, writes>>

splitVars == <<splitArgs, splitOut>>

seedVars == <<seedClass, nSeeds, rngSeed, hasAsscalar, workers>>

datasetVars == <<dim, coord, readAt>>

vars == <<engineVars, splitVars, seedVars, datasetVars>>

inputs == <<op, data, userMask, nbrArg, peaks, gfaThr, model, maskShape>>

NoPeakChunks == [dirs |-> <<>>, values |-> <<>>, indices |-> <<>>]

\* A split of the peak arrays that cuts peak_values at other boundaries than
\* the other arrays.
SplitPeaksOtherCuts(o, pk, m, n) ==
    IF o = "maps_from_sh"
    THEN LET vals == Compact([v \in Voxels |-> pk[v].val], m)
             div == CumSum0(SectionSizesRestToLast(Len(vals), n))
         IN  [dirs |-> ArraySplit(Compact([v \in Voxels |-> pk[v].ind], m), n),
              values |-> [i \in 1..n |-> SubSeq(vals, div[i] + 1, div[i + 1])],
              indices |-> ArraySplit(Compact([v \in Voxels |-> pk[v].ind], m), n)]
    ELSE NoPeakChunks

\* The chunks of peak_dirs, peak_values and peak_indices of maps_from_sh,
\* each array masked and split on its own (the direction of a peak is the
\* sphere vertex of its index).
SplitPeaks(o, pk, m, n) ==
    IF o = "maps_from_sh"
    THEN [dirs |-> ArraySplit(Compact([v \in Voxels |-> pk[v].ind], m), n),
          values |-> ArraySplit(Compact([v \in Voxels |-> pk[v].val], m), n),
          indices |-> ArraySplit(Compact([v \in Voxels |-> pk[v].ind], m), n)]
    ELSE NoPeakChunks

\* The entry of a call, for the mask shapes given.
CallInit(shapes) ==
    /\ op \in Ops
    /\ data \in IF op = "fit_from_model" THEN FitVolumes ELSE Volumes
    /\ model \in IF op = "fit_from_model" THEN SolverChoices ELSE {{}}
    /\ userMask \in MaskArgs
    /\ maskShape \in IF userMask.given THEN shapes ELSE {"same"}
    /\ raised = "none"
    /\ poolState = "none"
    /\ failed = {}
    /\ nbrArg \in NbrArgs
    /\ peaks \in IF op = "maps_from_sh" THEN [Voxels -> PeakChoices] ELSE {NoPeaks}
    /\ gfaThr \in IF op = "maps_from_sh" THEN GfaThrChoices ELSE {0}
    /\ callerMask = userMask
    /\ pc = "start"
    /\ mask = NoMask.m
    /\ nbr = 0
    /\ chunks = <<>>
    /\ peakChunks = NoPeakChunks
    /\ chunkLen = <<>>
    /\ results = <<>>
    /\ iterOrder = <<>>
    /\ tmp = <<>>
    /\ out = <<>>
    /\ allTimeMaxOdf = NegInf
    /\ allTimeGlobalMax = NegInf
    /\ writes = <<>>

\* A call whose mask array, if any, has the shape of the volume.
EngineInit == CallInit({"same"})

\* No call of a voxel-wise operation is under way.
EngineIdle ==
    /\ op = "fit_from_model"
    /\ model = {}
    /\ maskShape = "same"
    /\ raised = "none"
    /\ poolState = "none"
    /\ failed = {}
    /\ data = [v \in Voxels |-> ZeroRow]
    /\ userMask = NoMask
    /\ nbrArg = NoNbr
    /\ peaks = NoPeaks
    /\ gfaThr = 0
    /\ callerMask = NoMask
    /\ pc = "idle"
    /\ mask = NoMask.m
    /\ nbr = 0
    /\ chunks = <<>>
    /\ peakChunks = NoPeakChunks
    /\ chunkLen = <<>>
    /\ results = <<>>
    /\ iterOrder = <<>>
    /\ tmp = <<>>
    /\ out = <<>>
    /\ allTimeMaxOdf = NegInf
    /\ allTimeGlobalMax = NegInf
    /\ writes = <<>>

\* From the entry of an operation to the creation of the pool: the mask, the
\* worker count, the compact arrays and their chunks.  An exception of
\* np.array_split ends the call before the pool is created.
Prepare ==
    /\ pc = "start"
    /\ IF MaskStepRaises(op, userMask, maskShape) # "none"
       THEN /\ raised' = MaskStepRaises(op, userMask, maskShape)
            /\ pc' = "error"
            /\ UNCHANGED <<mask, callerMask, nbr, chunks, peakChunks,
                           chunkLen, poolState>>
       ELSE /\ mask' = EffectiveMask(op, data, userMask)
            /\ callerMask' = CallerMaskAfter(op, data, userMask)
            /\ nbr' = ResolveNbr(op, nbrArg).n
            /\ IF ArraySplitRaises(ResolveNbr(op, nbrArg)) # "none"
               THEN /\ pc' = "error"
                    /\ raised' = ArraySplitRaises(ResolveNbr(op, nbrArg))
                    /\ UNCHANGED <<chunks, peakChunks, chunkLen, poolState>>
               ELSE /\ pc' = "pool"
                    /\ raised' = "none"
                    /\ poolState' = "open"
                    /\ chunks' = ArraySplit(Compact(data, mask'), nbr')
                    /\ peakChunks' = SplitPeaks(op, peaks, mask', nbr')
                    /\ chunkLen' = ChunkLen(chunks')
    /\ UNCHANGED <<inputs, failed, results, iterOrder, tmp, out, allTimeMaxOdf,
                   allTimeGlobalMax, writes, splitVars, seedVars, datasetVars>>

\* One worker of the pool runs the operation's function on its chunk; the
\* workers finish in any order and pool.map stores each result at the index
\* of its chunk.
WorkerRun(i) ==
    /\ pc = "pool"
    /\ i \in 0..(nbr - 1)
    /\ i \notin DOMAIN results
    /\ i \notin failed
    /\ results' = (i :> RunChunk(op, model, chunks, peakChunks, gfaThr, i)) @@ results
    /\ UNCHANGED <<inputs, raised, poolState, failed, callerMask, pc, mask, nbr,
                   chunks, peakChunks, chunkLen, iterOrder, tmp, out,
                   allTimeMaxOdf, allTimeGlobalMax, writes, splitVars, seedVars, datasetVars>>

\* The worker of chunk i ends with an exception other than SolverError (a
\* MemoryError, say): its job is finished without a result.
WorkerCrash(i) ==
    /\ pc = "pool"
    /\ i \in 0..(nbr - 1)
    /\ i \notin DOMAIN results
    /\ failed = {}
    /\ failed' = {i}
    /\ UNCHANGED <<inputs, raised, poolState, callerMask, pc, mask, nbr, chunks,
                   peakChunks, chunkLen, results, iterOrder, tmp, out,
                   allTimeMaxOdf, allTimeGlobalMax, writes, splitVars, seedVars, datasetVars>>

\* pool.map re-raises the exception of a worker in the caller: at once or
\* when all jobs are finished, depending on the version of multiprocessing.
\* The exception leaves the operation from the pool.map line: pool.close()
\* and pool.join() are not executed and nothing is returned.
MapRaises ==
    /\ pc = "pool"
    /\ failed # {}
    /\ pc' = "error"
    /\ raised' = "WorkerError"
    /\ UNCHANGED <<inputs, poolState, failed, callerMask, mask, nbr, chunks,
                   peakChunks, chunkLen, results, iterOrder, tmp, out,
                   allTimeMaxOdf, allTimeGlobalMax, writes, splitVars, seedVars, datasetVars>>

\* pool.map has returned (close, join); the results are iterated in the
\* order given and the volumes are filled.
ReassembleIn(order) ==
    /\ pc = "pool"
    /\ DOMAIN results = 0..(nbr - 1)
    /\ LET rs == [k \in DOMAIN order |-> results[order[k]]]
           acc == Reassembled(op, rs, chunkLen, CountNonzero(mask))
           err == ScatterRaises(userMask, maskShape, CountNonzero(mask))
       IN  /\ tmp' = acc.tmp
           /\ allTimeMaxOdf' = acc.max_odf
           /\ allTimeGlobalMax' = acc.global_max
           /\ writes' = acc.writes
           /\ raised' = err
           /\ IF err # "none"
              THEN pc' = "error" /\ UNCHANGED out
              ELSE pc' = "done" /\ out' = FinalVolume(op, mask, acc)
    /\ iterOrder' = order
    /\ poolState' = "closed"
    /\ UNCHANGED <<inputs, failed, callerMask, mask, nbr, chunks, peakChunks,
                   chunkLen, results, splitVars, seedVars, datasetVars>>

\* pool.map returns the results in the order of the chunks.
MapOrder == [k \in 1..nbr |-> k - 1]

Reassemble == ReassembleIn(MapOrder)

\* ------------------------------------------------------- np.array_split
SplitIdle ==
    /\ splitArgs = [total |-> 0, n |-> 1]
    /\ splitOut = [done |-> FALSE, chunks |-> <<>>, chunk_len |-> <<>>]

SplitInit ==
    /\ splitArgs \in [total : 0..MaxM, n : 1..MaxK]
    /\ splitOut = [done |-> FALSE, chunks |-> <<>>, chunk_len |-> <<>>]

\* The split step of every operation on the compact positions 0..total-1:
\* chunks = np.array_split(data, nbr_processes) and
\* chunk_len = np.cumsum([0] + [len(c) for c in chunks]).
SplitStep ==
    /\ ~splitOut.done
    /\ LET chs == ArraySplit([p \in 1..splitArgs.total |-> p - 1], splitArgs.n)
       IN  splitOut' = [done |-> TRUE, chunks |-> chs, chunk_len |-> ChunkLen(chs)]
    /\ UNCHANGED <<splitArgs, engineVars, seedVars, datasetVars>>

\* ------------------------------------------------------- seed generators
\* A numpy RandomState is its seed and what has been drawn from it since it
\* was seeded: log is the sequence of shuffles and of runs of doubles drawn,
\* so two generators are equal exactly when they are at the same place of
\* the same stream.
FreshGenerator(seed) == [seed |-> seed, log |-> <<>>]

Drawn(gen) ==
    SeqSum([k \in DOMAIN gen.log |->
               IF gen.log[k].kind = "draw" THEN gen.log[k].n ELSE 0])

\* random_sample(n), rand(n), or n calls of uniform(): n doubles are drawn.
Draw(gen, n) ==
    IF n = 0 THEN gen
    ELSE IF gen.log # <<>> /\ gen.log[Len(gen.log)].kind = "draw"
    THEN [gen EXCEPT !.log[Len(gen.log)].n = @ + n]
    ELSE [gen EXCEPT !.log = Append(@, [kind |-> "draw", n |-> n])]

RECURSIVE DrawAll(_, _)
DrawAll(gen, sizes) ==
    IF sizes = <<>> THEN gen ELSE DrawAll(Draw(gen, Head(sizes)), Tail(sizes))

\* random_generator.shuffle(np.arange(n)) of numpy's RandomState (MT19937
\* seeded with init_genrand; the elements n-1 down to 1 are each swapped with
\* one at a position drawn in 0..i by masked rejection of 32-bit outputs), by
\* <<seed, doubles drawn before the shuffle, n>>.
ShuffleTable ==
    <<0, 0, 2>> :> <<1, 0>>
    @@ <<0, 0, 3>> :> <<2, 1, 0>>
    @@ <<0, 0, 4>> :> <<2, 3, 1, 0>>
    @@ <<0, 3, 2>> :> <<0, 1>>
    @@ <<0, 3, 3>> :> <<0, 2, 1>>
    @@ <<0, 3, 4>> :> <<0, 2, 1, 3>>
    @@ <<0, 6, 2>> :> <<1, 0>>
    @@ <<0, 6, 3>> :> <<2, 1, 0>>
    @@ <<0, 6, 4>> :> <<1, 3, 2, 0>>
    @@ <<0, 9, 2>> :> <<1, 0>>
    @@ <<0, 9, 3>> :> <<0, 1, 2>>
    @@ <<0, 9, 4>> :> <<3, 0, 1, 2>>
    @@ <<0, 99999, 2>> :> <<1, 0>>
    @@ <<0, 99999, 3>> :> <<1, 0, 2>>
    @@ <<0, 99999, 4>> :> <<0, 1, 3, 2>>
    @@ <<0, 100002, 2>> :> <<0, 1>>
    @@ <<0, 100002, 3>> :> <<2, 0, 1>>
    @@ <<0, 100002, 4>> :> <<2, 3, 0, 1>>
    @@ <<0, 200001, 2>> :> <<1, 0>>
    @@ <<0, 200001, 3>> :> <<2, 1, 0>>
    @@ <<0, 200001, 4>> :> <<2, 1, 3, 0>>
    @@ <<0, 250002, 2>> :> <<1, 0>>
    @@ <<0, 250002, 3>> :> <<2, 1, 0>>
    @@ <<0, 250002, 4>> :> <<2, 3, 1, 0>>
    @@ <<0, 300000, 2>> :> <<1, 0>>
    @@ <<0, 300000, 3>> :> <<2, 1, 0>>
    @@ <<0, 300000, 4>> :> <<2, 3, 1, 0>>
    @@ <<1, 0, 2>> :> <<0, 1>>
    @@ <<1, 0, 3>> :> <<0, 2, 1>>
    @@ <<1, 0, 4>> :> <<3, 2, 0, 1>>
    @@ <<1, 3, 2>> :> <<0, 1>>
    @@ <<1, 3, 3>> :> <<0, 2, 1>>
    @@ <<1, 3, 4>> :> <<0, 2, 1, 3>>
    @@ <<1, 6, 2>> :> <<1, 0>>
    @@ <<1, 6, 3>> :> <<2, 1, 0>>
    @@ <<1, 6, 4>> :> <<2, 3, 1, 0>>
    @@ <<1, 9, 2>> :> <<1, 0>>
    @@ <<1, 9, 3>> :> <<1, 0, 2>>
    @@ <<1, 9, 4>> :> <<1, 3, 0, 2>>
    @@ <<1, 99999, 2>> :> <<1, 0>>
    @@ <<1, 99999, 3>> :> <<2, 1, 0>>
    @@ <<1, 99999, 4>> :> <<2, 3, 1, 0>>
    @@ <<1, 100002, 2>> :> <<0, 1>>
    @@ <<1, 100002, 3>> :> <<0, 2, 1>>
    @@ <<1, 100002, 4>> :> <<0, 2, 1, 3>>
    @@ <<1, 200001, 2>> :> <<1, 0>>
    @@ <<1, 200001, 3>> :> <<1, 2, 0>>
    @@ <<1, 200001, 4>> :> <<1, 2, 3, 0>>
    @@ <<1, 250002, 2>> :> <<0, 1>>
    @@ <<1, 250002, 3>> :> <<2, 0, 1>>
    @@ <<1, 250002, 4>> :> <<2, 3, 0, 1>>
    @@ <<1, 300000, 2>> :> <<1, 0>>
    @@ <<1, 300000, 3>> :> <<2, 1, 0>>
    @@ <<1, 300000, 4>> :> <<2, 3, 1, 0>>
    @@ <<2, 0, 2>> :> <<1, 0>>
    @@ <<2, 0, 3>> :> <<2, 1, 0>>
    @@ <<2, 0, 4>> :> <<2, 3, 1, 0>>
    @@ <<2, 3, 2>> :> <<1, 0>>
    @@ <<2, 3, 3>> :> <<0, 1, 2>>
    @@ <<2, 3, 4>> :> <<3, 1, 0, 2>>
    @@ <<2, 6, 2>> :> <<0, 1>>
    @@ <<2, 6, 3>> :> <<0, 2, 1>>
    @@ <<2, 6, 4>> :> <<0, 2, 1, 3>>
    @@ <<2, 9, 2>> :> <<1, 0>>
    @@ <<2, 9, 3>> :> <<1, 0, 2>>
    @@ <<2, 9, 4>> :> <<1, 3, 0, 2>>
    @@ <<2, 99999, 2>> :> <<0, 1>>
    @@ <<2, 99999, 3>> :> <<1, 0, 2>>
    @@ <<2, 99999, 4>> :> <<1, 0, 2, 3>>
    @@ <<2, 100002, 2>> :> <<1, 0>>
    @@ <<2, 100002, 3>> :> <<2, 1, 0>>
    @@ <<2, 100002, 4>> :> <<3, 2, 1, 0>>
    @@ <<2, 200001, 2>> :> <<1, 0>>
    @@ <<2, 200001, 3>> :> <<1, 2, 0>>
    @@ <<2, 200001, 4>> :> <<3, 1, 2, 0>>
    @@ <<2, 250002, 2>> :> <<1, 0>>
    @@ <<2, 250002, 3>> :> <<1, 0, 2>>
    @@ <<2, 250002, 4>> :> <<1, 0, 3, 2>>
    @@ <<2, 300000, 2>> :> <<0, 1>>
    @@ <<2, 300000, 3>> :> <<2, 0, 1>>
    @@ <<2, 300000, 4>> :> <<3, 0, 2, 1>>

\* shuffle(np.arange(n)): the permutation depends on the state of the
\* generator, its seed and its position; shuffling fewer than two elements
\* draws nothing.
ShuffledIndices(gen, n) ==
    IF n < 2 THEN [k \in 1..n |-> k - 1]
    ELSE ShuffleTable[<<gen.seed, Drawn(gen), n>>]

AfterShuffle(gen, n) ==
    IF n <= 1 THEN gen
    ELSE [gen EXCEPT !.log = Append(@, [kind |-> "shuffle", n |-> n])]

\* A skip that discards everything in one call.
SkipAllAtOnce(to_skip) == <<to_skip>>

\* The sizes of the discards of the skip loop: 100000 while more than 100000
\* remain, then what remains.
RECURSIVE SkipBatches(_)
SkipBatches(to_skip) ==
    IF to_skip > DiscardBatch
    THEN <<DiscardBatch>> \o SkipBatches(to_skip - DiscardBatch)
    ELSE <<to_skip>>

\* An init_generator that skips ahead first and shuffles afterwards.
init_generator_skip_first(n_seeds, random_initial_value, first_seed_of_chunk) ==
    LET fresh == FreshGenerator(random_initial_value)
        sizes == SkipBatches(first_seed_of_chunk * 3)
        skipped == DrawAll(fresh, sizes)
    IN  [random_generator |-> AfterShuffle(skipped, n_seeds),
         indices |-> ShuffledIndices(skipped, n_seeds),
         discards |-> sizes]

\* SeedGenerator.init_generator of seed.py
init_generator(n_seeds, random_initial_value, first_seed_of_chunk) ==
    LET fresh == FreshGenerator(random_initial_value)
        sizes == SkipBatches(first_seed_of_chunk * 3)
    IN  [random_generator |-> DrawAll(AfterShuffle(fresh, n_seeds), sizes),
         indices |-> ShuffledIndices(fresh, n_seeds),
         discards |-> sizes]

\* The types an integer argument comes in: a Python int or a numpy integer.
IntKinds == {"int", "np.int64"}

\* np.asscalar(a), that is a.item(): AttributeError when numpy has no
\* asscalar any more (removed in 1.23) or when a is a Python int.
asscalarRaises(has, kind) ==
    IF has /\ kind = "np.int64" THEN "none" ELSE "AttributeError"

\* Seed.init_pos of trackable_dataset.py, for a first_seed_of_chunk of the
\* given type: np.asscalar(first_seed_of_chunk) is evaluated after the
\* shuffle, and its exception leaves init_pos without a return value.
init_pos(n_seeds, random_initial_value, first_seed_of_chunk, kind, has) ==
    LET fresh == FreshGenerator(random_initial_value)
        sizes == SkipBatches(first_seed_of_chunk * 3)
    IN  IF asscalarRaises(has, kind) # "none"
        THEN [raised |-> asscalarRaises(has, kind),
              random_generator |-> AfterShuffle(fresh, n_seeds),
              indices |-> <<>>,
              discards |-> <<>>]
        ELSE [raised |-> "none",
              random_generator |-> DrawAll(AfterShuffle(fresh, n_seeds), sizes),
              indices |-> ShuffledIndices(fresh, n_seeds),
              discards |-> sizes]

\* A get_next_pos that draws r_x and r_y only and reuses r_y for r_z.
get_next_pos_two_draws(n_seeds, gen, indices, which_seed) ==
    IF n_seeds = 0
    THEN [pos |-> [voxel |-> -1, r |-> <<>>], random_generator |-> gen]
    ELSE [pos |-> [voxel |-> indices[(which_seed % n_seeds) + 1],
                   r |-> <<Draw(gen, 0), Draw(gen, 1), Draw(gen, 1)>>],
          random_generator |-> Draw(gen, 2)]

\* SeedGenerator.get_next_pos: the seed voxel of indices[which_seed % len]
\* and three uniform draws, each kept as the place of the stream it was
\* drawn at.  Without seed voxels it returns [] and draws nothing.
get_next_pos(n_seeds, gen, indices, which_seed) ==
    IF n_seeds = 0
    THEN [pos |-> [voxel |-> -1, r |-> <<>>], random_generator |-> gen]
    ELSE [pos |-> [voxel |-> indices[(which_seed % n_seeds) + 1],
                   r |-> <<Draw(gen, 0), Draw(gen, 1), Draw(gen, 2)>>],
          random_generator |-> Draw(gen, 3)]

\* Seed.get_next_pos of trackable_dataset.py, for a which_seed of the given
\* type: the same, but the index goes through np.asscalar(ind) before
\* anything is drawn; ind = which_seed % len_seeds has the type of which_seed.
Seed_get_next_pos(n_seeds, gen, indices, which_seed, kind, has) ==
    IF n_seeds = 0
    THEN [raised |-> "none",
          pos |-> [voxel |-> -1, r |-> <<>>], random_generator |-> gen]
    ELSE IF asscalarRaises(has, kind) # "none"
    THEN [raised |-> asscalarRaises(has, kind),
          pos |-> [voxel |-> -1, r |-> <<>>], random_generator |-> gen]
    ELSE [raised |-> "none",
          pos |-> [voxel |-> indices[(which_seed % n_seeds) + 1],
                   r |-> <<Draw(gen, 0), Draw(gen, 1), Draw(gen, 2)>>],
          random_generator |-> Draw(gen, 3)]

\* first_seed_of_chunk of a tracking process: a few small values, and values
\* whose triple is just below, just above, several times and exactly a
\* multiple of the batch size.
SkipChoices == (0..MaxSkip) \cup {33333, 33334, 66667, 83334, 100000}

WorkerNames == {"seq", "chk"}

NotStarted == [started |-> FALSE, raised |-> "none", first |-> 0,
               random_generator |-> FreshGenerator(0), indices |-> <<>>,
               discards |-> <<>>, which |-> 0, made |-> <<>>]

SeedIdle ==
    /\ seedClass = "none"
    /\ nSeeds = 0
    /\ rngSeed = 0
    /\ hasAsscalar = TRUE
    /\ workers = [w \in WorkerNames |-> NotStarted]

SeedInit ==
    /\ seedClass \in {"SeedGenerator", "Seed"}
    /\ nSeeds \in 0..MaxSeedVox
    /\ rngSeed \in 0..MaxRngSeed
    /\ hasAsscalar \in BOOLEAN
    /\ workers = [w \in WorkerNames |-> NotStarted]

\* A tracking process initialises its generator: "seq" is the single process
\* that starts at seed 0, "chk" a process that starts at a later seed.  A
\* call that raises returns nothing: the process has no generator.
InitGenerator(w, first, kind) ==
    /\ seedClass # "none"
    /\ ~workers[w].started
    /\ workers[w].raised = "none"
    /\ w = "seq" => first = 0
    /\ LET r == IF seedClass = "SeedGenerator"
                THEN init_generator(nSeeds, rngSeed, first)
                ELSE init_pos(nSeeds, rngSeed, first, kind, hasAsscalar)
           err == IF seedClass = "SeedGenerator" THEN "none"
                  ELSE init_pos(nSeeds, rngSeed, first, kind, hasAsscalar).raised
       IN  IF err # "none"
           THEN workers' = [workers EXCEPT ![w].raised = err, ![w].first = first]
           ELSE workers' = [workers EXCEPT ![w] =
                         [started |-> TRUE, raised |-> "none", first |-> first,
                          random_generator |-> r.random_generator,
                          indices |-> r.indices, discards |-> r.discards,
                          which |-> first, made |-> <<>>]]
    /\ UNCHANGED <<seedClass, nSeeds, rngSeed, hasAsscalar, engineVars,
                   splitVars, datasetVars>>

\* A tracking process generates its next seed; an exception ends the process.
GetNextPos(w, kind) ==
    /\ workers[w].started
    /\ workers[w].raised = "none"
    /\ Len(workers[w].made) < (IF w = "seq" THEN MaxSkip + MaxMade ELSE MaxMade)
    /\ IF seedClass = "SeedGenerator"
       THEN LET r == get_next_pos(nSeeds, workers[w].random_generator,
                                  workers[w].indices, workers[w].which)
            IN  workers' = [workers EXCEPT
                               ![w].random_generator = r.random_generator,
                               ![w].made = Append(@, r.pos),
                               ![w].which = @ + 1]
       ELSE LET r == Seed_get_next_pos(nSeeds, workers[w].random_generator,
                                       workers[w].indices, workers[w].which,
                                       kind, hasAsscalar)
            IN  IF r.raised # "none"
                THEN workers' = [workers EXCEPT ![w].raised = r.raised]
                ELSE workers' = [workers EXCEPT
                                   ![w].random_generator = r.random_generator,
                                   ![w].made = Append(@, r.pos),
                                   ![w].which = @ + 1]
    /\ UNCHANGED <<seedClass, nSeeds, rngSeed, hasAsscalar, engineVars,
                   splitVars, datasetVars>>

\* ----------------------------------------------------------------- Dataset
NumMin(a, b) == IF a <= b THEN a ELSE b

\* Dataset.isVoxelInBound for a dataset of spatial shape d
isVoxelInBound(d, x, y, z) ==
    x < d[1] /\ y < d[2] /\ z < d[3] /\ x >= 0 /\ y >= 0 /\ z >= 0

\* A lookup that clamps at the upper end only.
getVoxelValue_upper_only(d, x, y, z) ==
    IF ~isVoxelInBound(d, x, y, z)
    THEN <<NumMin(d[1] - 1, x), NumMin(d[2] - 1, y), NumMin(d[3] - 1, z)>>
    ELSE <<x, y, z>>

\* Dataset.getVoxelValue: the index [x][y][z] of self.data it reads.
getVoxelValue(d, x, y, z) ==
    IF ~isVoxelInBound(d, x, y, z)
    THEN <<NumMax(0, NumMin(d[1] - 1, x)),
           NumMax(0, NumMin(d[2] - 1, y)),
           NumMax(0, NumMin(d[3] - 1, z))>>
    ELSE <<x, y, z>>

\* Integer coordinates up to MaxOut voxels outside the largest volume.
Coords == (0 - MaxOut)..(MaxDim - 1 + MaxOut)

DatasetIdle ==
    /\ dim = <<1, 1, 1>>
    /\ coord = <<0, 0, 0>>
    /\ readAt = <<>>

DatasetInit ==
    /\ dim \in (1..MaxDim) \X (1..MaxDim) \X (1..MaxDim)
    /\ coord = <<0, 0, 0>>
    /\ readAt = <<>>

\* One lookup of a voxel value.
GetVoxelValue(x, y, z) ==
    /\ readAt = <<>>
    /\ coord' = <<x, y, z>>
    /\ readAt' = getVoxelValue(dim, x, y, z)
    /\ UNCHANGED <<dim, engineVars, splitVars, seedVars>>

\* --------------------------------------------------------- specifications
Init == EngineInit /\ SplitIdle /\ SeedIdle /\ DatasetIdle

Next ==
    \/ Prepare
    \/ \E i \in 0..(MaxProc - 1) : WorkerRun(i)
    \/ Reassemble

Spec == Init /\ [][Next]_vars

\* The same operations with the results iterated in an arbitrary order.
Orders == {o \in [1..nbr -> 0..(nbr - 1)] : \A i \in 0..(nbr - 1) : \E k \in 1..nbr : o[k] = i}

ReassembleAnyOrder == \E order \in Orders : ReassembleIn(order)

NextAnyOrder ==
    \/ Prepare
    \/ \E i \in 0..(MaxProc - 1) : WorkerRun(i)
    \/ ReassembleAnyOrder

SpecAnyOrder == Init /\ [][NextAnyOrder]_vars

\* Calls with a mask array whose shape is not the volume's.
InitShapes ==
    CallInit({"longer", "fewer"}) /\ userMask.given /\ SplitIdle /\ SeedIdle /\ DatasetIdle

SpecShapes == InitShapes /\ [][Next]_vars

\* The operations with workers that may end with an exception.
NextCrash ==
    \/ Prepare
    \/ \E i \in 0..(MaxProc - 1) : WorkerRun(i)
    \/ \E i \in 0..(MaxProc - 1) : WorkerCrash(i)
    \/ MapRaises
    \/ Reassemble

SpecCrash == Init /\ [][NextCrash]_vars

\* np.array_split and the cumulative offsets, on their own.
InitSplit == EngineIdle /\ SplitInit /\ SeedIdle /\ DatasetIdle

SpecSplit == InitSplit /\ [][SplitStep]_vars

\* The seed generators.
InitSeed == EngineIdle /\ SplitIdle /\ SeedInit /\ DatasetIdle

NextSeed ==
    \/ \E w \in WorkerNames : \E first \in SkipChoices : \E kind \in IntKinds :
          InitGenerator(w, first, kind)
    \/ \E w \in WorkerNames : \E kind \in IntKinds : GetNextPos(w, kind)

SpecSeed == InitSeed /\ [][NextSeed]_vars

\* Voxel lookups of a Dataset.
InitDataset == EngineIdle /\ SplitIdle /\ SeedIdle /\ DatasetInit

NextDataset == \E x, y, z \in Coords : GetVoxelValue(x, y, z)

SpecDataset == InitDataset /\ [][NextDataset]_vars

\* ------------------------------------------------------------ properties
\* A whole call with k >= 1 workers, as one function of the arguments.
Pipeline(o, mdl, vol, um, pk, thr, k) ==
    LET m   == EffectiveMask(o, vol, um)
        chs == ArraySplit(Compact(vol, m), k)
        pch == SplitPeaks(o, pk, m, k)
        rs  == [i \in 1..k |-> RunChunk(o, mdl, chs, pch, thr, i - 1)]
        acc == Reassembled(o, rs, ChunkLen(chs), CountNonzero(m))
    IN  [out |-> FinalVolume(o, m, acc),
         max_odf |-> acc.max_odf, global_max |-> acc.global_max]

Returned == [out |-> out, max_odf |-> allTimeMaxOdf, global_max |-> allTimeGlobalMax]

ChunkIds == 0..(nbr - 1)

\* C1: a call with any worker count returns the volumes and the combined
\* aggregates that the same call returns with one worker.
C1_SameAsOneWorker ==
    pc = "done" => Returned = Pipeline(op, model, data, userMask, peaks, gfaThr, 1)

\* C3: in maps_from_sh, all_time_max_odf after the loop is the maximum of the
\* max_odf values of the chunk results.
C3_MaxOdfIsMaxOfChunks ==
    (pc = "done" /\ op = "maps_from_sh") =>
        allTimeMaxOdf = SeqMax([k \in 1..nbr |-> results[k - 1].max_odf])

\* C4: in maps_from_sh, all_time_global_max after the loop is the maximum of
\* the global_max values of the chunk results, whatever their max_odf values
\* and whatever the order in which the results were iterated.
C4_GlobalMaxIsMaxOfChunks ==
    (pc = "done" /\ op = "maps_from_sh") =>
        allTimeGlobalMax = SeqMax([k \in 1..nbr |-> results[k - 1].global_max])

\* Several chunks, iterated out of order, with differing global_max values
\* and a chunk whose max_odf exceeds every global_max.
C4_Witness ==
    /\ pc = "done" /\ op = "maps_from_sh" /\ nbr >= 2
    /\ iterOrder # MapOrder
    /\ \E i, j \in ChunkIds : /\ results[i].global_max # NegInf
                              /\ results[j].global_max # NegInf
                              /\ results[i].global_max < results[j].global_max
    /\ \E i \in ChunkIds : results[i].max_odf > allTimeGlobalMax

C8_UserMaskAndData ==
    (pc # "start" /\ userMask.given) =>
        \A v \in Voxels : mask[v] => (userMask.m[v] /\ RowAny(data[v]))

\* C9: without a mask argument, the derived mask is true exactly at the
\* voxels with a nonzero channel value.
C9_DerivedMaskIsAny ==
    (pc # "start" /\ ~userMask.given) =>
        \A v \in Voxels : mask[v] = RowAny(data[v])

\* C10: the caller's arrays hold after the call what they held before it.
C10_InputsUnmodified == callerMask = userMask


\* C2: the chunks of the split step and their cumulative offsets: the sizes
\* differ by at most 1 and sum to the number of positions, the offsets are
\* non-decreasing from 0 to that number, and chunk i holds exactly the
\* positions offsets[i] .. offsets[i+1] - 1.
C2_ChunksPartition ==
    splitOut.done =>
        LET chs == splitOut.chunks
            off == splitOut.chunk_len
            n   == splitArgs.n
            tot == splitArgs.total
        IN  /\ Len(chs) = n /\ Len(off) = n + 1
            /\ \A i, j \in 1..n : Len(chs[i]) - Len(chs[j]) <= 1
            /\ SeqSum([i \in 1..n |-> Len(chs[i])]) = tot
            /\ off[1] = 0 /\ off[n + 1] = tot
            /\ \A i \in 1..n : off[i] <= off[i + 1]
            /\ \A i \in 1..n : Range(chs[i]) = {p \in 0..(tot - 1) : off[i] <= p /\ p < off[i + 1]}
            /\ \A p \in 0..(tot - 1) :
                  Cardinality({i \in 1..n : \E j \in DOMAIN chs[i] : chs[i][j] = p}) = 1

\* An uneven split into several chunks.
C2_Witness ==
    /\ splitOut.done
    /\ splitArgs.n >= 3
    /\ splitArgs.total > splitArgs.n
    /\ splitArgs.total % splitArgs.n >= 2

\* C5: for every first_seed_of_chunk, init_generator and Seed.init_pos return
\* a generator, and (before the process makes its first seed) it is the
\* freshly seeded generator after the shuffle of the indices and one discard
\* of first_seed_of_chunk * 3 doubles; the discards add up to that.
C5_SkipAhead ==
    \A w \in WorkerNames :
        /\ ~workers[w].started => workers[w].raised = "none"
        /\ (workers[w].started /\ workers[w].made = <<>>) =>
              /\ workers[w].random_generator =
                    Draw(AfterShuffle(FreshGenerator(rngSeed), nSeeds),
                         workers[w].first * 3)
              /\ SeqSum(workers[w].discards) = workers[w].first * 3

\* C6: with seed voxels, every get_next_pos of SeedGenerator draws three
\* doubles, and the seeds a process started at seed n makes are the seeds n,
\* n+1, ... of the process started at seed 0.
C6_SamePositions ==
    (seedClass = "SeedGenerator" /\ nSeeds > 0
         /\ workers["seq"].started /\ workers["chk"].started) =>
        /\ \A w \in WorkerNames :
              /\ workers[w].raised = "none"
              /\ workers[w].which = workers[w].first + Len(workers[w].made)
              /\ Drawn(workers[w].random_generator)
                    = 3 * workers[w].first + 3 * Len(workers[w].made)
        /\ \A k \in DOMAIN workers["chk"].made :
              workers["chk"].first + k \in DOMAIN workers["seq"].made =>
                  workers["chk"].made[k]
                      = workers["seq"].made[workers["chk"].first + k]

\* The process started at seed 2 has made seeds 2 and 3, which the process
\* started at seed 0 has made as well.
C6_Witness ==
    /\ seedClass = "SeedGenerator"
    /\ nSeeds >= 2
    /\ workers["chk"].started /\ workers["chk"].first = 2
    /\ Len(workers["chk"].made) = 2
    /\ Len(workers["seq"].made) = 4

\* The value of every returned array at a coordinate that was never written.
ZeroVoxel(o) == [main |-> DefaultOut(o), qa |-> Frac(0, 1)]

\* C11: a requested worker count <= 0, or none, is replaced by the detected
\* hardware concurrency before the split step and the pool, in every
\* operation.
C11_NbrDefaulted ==
    (pc # "start" /\ (~nbrArg.given \/ nbrArg.n <= 0)) =>
        (nbr = CpuCount /\ pc # "error")

\* C12: with M > 0 active voxels the number of chunks is max(1, min(K, M))
\* and no chunk is empty.
C12_ChunksClamped ==
    (pc \in {"pool", "done"} /\ CountNonzero(mask) > 0) =>
        LET M == CountNonzero(mask)
            clamped == IF nbr < M THEN nbr ELSE M
        IN  /\ Len(chunks) = (IF clamped < 1 THEN 1 ELSE clamped)
            /\ \A i \in DOMAIN chunks : Len(chunks[i]) > 0

\* C13: with a mask that is false everywhere and any worker count >= 1 the
\* call returns, and every returned array is zero at every coordinate.
C13_EmptyMaskAllZero ==
    (pc \in {"done", "error"} /\ CountNonzero(mask) = 0 /\ nbr >= 1) =>
        /\ pc = "done"
        /\ \A v \in Voxels : out[v] = ZeroVoxel(op)

\* C14: every returned array is zero at every coordinate where the mask the
\* call worked with is false, rgb_map and qa_map after their division by the
\* combined maxima included.
C14_OutsideMaskZero ==
    pc = "done" =>
        \A v \in Voxels : ~mask[v] => out[v] = ZeroVoxel(op)

\* C15: for a row of a chunk that is entirely zero, every output of the
\* per-chunk function is zero (peak_indices of peaks_from_sh included).
C15_ZeroRowsLeftZero ==
    \A i \in DOMAIN results : \A j \in DOMAIN chunks[i + 1] :
        ~RowAny(chunks[i + 1][j]) => results[i].out[j] = DefaultOut(op)

\* C19: with q = M div K and r = M mod K the split step gives K chunks, the
\* first r of q + 1 rows and the other K - r of q rows, in the order of the
\* rows.
C19_SplitSizes ==
    splitOut.done =>
        LET M == splitArgs.total
            K == splitArgs.n
            q == M \div K
            r == M % K
        IN  /\ Len(splitOut.chunks) = K
            /\ \A i \in 1..K :
                  Len(splitOut.chunks[i]) = (IF i <= r THEN q + 1 ELSE q)
            /\ \A i \in 1..K : \A j \in DOMAIN splitOut.chunks[i] :
                  splitOut.chunks[i][j] = splitOut.chunk_len[i] + j - 1

\* A split with 0 < r < K and q > 0.
C19_Witness ==
    /\ splitOut.done
    /\ splitArgs.n >= 2
    /\ splitArgs.total \div splitArgs.n >= 1
    /\ splitArgs.total % splitArgs.n = 1
    /\ Len(splitOut.chunks[1]) > Len(splitOut.chunks[splitArgs.n])

\* C20: every discard of the skip loop but the last asks for exactly the
\* batch size, the last one (after the loop) for 0 .. batch size doubles; no
\* discard asks for more.
C20_BoundedDiscards ==
    \A w \in WorkerNames :
        workers[w].started =>
            LET d == workers[w].discards
            IN  /\ Len(d) >= 1
                /\ \A k \in 1..(Len(d) - 1) : d[k] = DiscardBatch
                /\ d[Len(d)] >= 0 /\ d[Len(d)] <= DiscardBatch
                /\ Len(d) = 1 => d[1] = workers[w].first * 3

\* A skip of 250002 doubles: two whole batches and a final discard of 50002.
C20_Witness ==
    /\ workers["chk"].started
    /\ workers["chk"].first * 3 = 250002
    /\ workers["chk"].discards = <<DiscardBatch, DiscardBatch, 50002>>

\* C16: a SolverError of model.fit on one voxel leaves the sentinel fit at
\* that voxel only; every other row of the chunk, and every other voxel of
\* the returned array, holds what it holds when no fit fails; the call does
\* not end in an error.
C16_SolverErrorSentinel ==
    op = "fit_from_model" =>
        /\ pc # "error"
        /\ \A i \in DOMAIN results : \A j \in DOMAIN chunks[i + 1] :
              results[i].out[j] =
                  IF RowAny(chunks[i + 1][j]) /\ chunks[i + 1][j] \in model
                  THEN Sentinel
                  ELSE fit_from_model_parallel({}, chunks[i + 1], i).out[j]
        /\ pc = "done" =>
              \A v \in Voxels :
                  out[v].main =
                      IF mask[v] /\ data[v] \in model
                      THEN Sentinel
                      ELSE Pipeline(op, {}, data, userMask, peaks, gfaThr,
                                    nbr).out[v].main

\* A finished call with a chunk in which exactly one row fails, followed by
\* a nonzero row that does not.
C16_Witness ==
    /\ pc = "done" /\ op = "fit_from_model"
    /\ \E i \in ChunkIds :
          LET c == chunks[i + 1]
          IN  /\ Cardinality({j \in DOMAIN c : c[j] \in model}) = 1
              /\ \E j, k \in DOMAIN c :
                    /\ j < k
                    /\ c[j] \in model
                    /\ RowAny(c[k]) /\ c[k] \notin model
              /\ results[i].out # fit_from_model_parallel({}, c, i).out

\* C17: a call with a mask array of another shape than the volume's ends in
\* an error before any chunk is built, any pool is created and any worker
\* runs.
C17_MaskShapeRejected ==
    (userMask.given /\ maskShape # "same") =>
        /\ pc \in {"start", "error"}
        /\ pc = "error" => raised # "none"
        /\ chunks = <<>>
        /\ poolState = "none"
        /\ results = <<>>

\* C18: once a worker has ended with an exception the call returns nothing,
\* and when it has ended in its error the pool has been closed or terminated.
C18_CrashTearsDown ==
    failed # {} =>
        /\ pc \in {"pool", "error"}
        /\ out = <<>>
        /\ pc = "error" => poolState # "open"

\* C21: every array maps_from_sh_parallel returns has one row per voxel of
\* its chunk, and row j is what the function computes for voxel j alone: the
\* qa_map row of a voxel is its own peak value minus its own odf minimum, or
\* zero.
C21_RowsPerVoxel ==
    op = "maps_from_sh" =>
        \A i \in DOMAIN results :
            LET c == chunks[i + 1]
                r == results[i]
            IN  /\ Len(r.out) = Len(c)
                /\ r.qa.kind = "array"
                /\ Len(r.qa.rows) = Len(c)
                /\ \A j \in DOMAIN c :
                      LET own == maps_from_sh_parallel(
                                     <<c[j]>>, <<peakChunks.values[i + 1][j]>>,
                                     <<peakChunks.indices[i + 1][j]>>, gfaThr, i)
                      IN  /\ r.out[j] = own.out[1]
                          /\ r.qa.rows[j] = own.qa.rows[1]

\* C22: getVoxelValue never reads outside the volume: on every axis the index
\* read lies in 0..dim-1 and is the requested coordinate clamped to that range,
\* and coordinates inside the volume are read unchanged.
C22_ReadsClamped ==
    readAt # <<>> =>
        /\ \A a \in 1..3 :
              /\ readAt[a] >= 0
              /\ readAt[a] <= dim[a] - 1
              /\ readAt[a] = (IF coord[a] < 0 THEN 0
                              ELSE IF coord[a] > dim[a] - 1 THEN dim[a] - 1
                              ELSE coord[a])
        /\ (\A a \in 1..3 : coord[a] >= 0 /\ coord[a] < dim[a]) => readAt = coord

\* a lookup below the volume on x, beyond it on y and inside it on z
C22_Witness ==
    /\ readAt # <<>>
    /\ coord[1] < 0
    /\ coord[2] > dim[2]
    /\ coord[3] = 1
    /\ dim[3] = 2
    /\ readAt = <<0, dim[2] - 1, 1>>

\* C23: the index list init_generator returns is a permutation of 0..N-1 that
\* depends on the random seed and N only: it is the list of the process that
\* starts at seed 0, whatever first_seed_of_chunk is, so all processes hold
\* the same list.
C23_SamePermutation ==
    seedClass = "SeedGenerator" =>
        \A w \in WorkerNames :
            workers[w].started =>
                /\ Len(workers[w].indices) = nSeeds
                /\ \A v \in 0..(nSeeds - 1) :
                      Cardinality({k \in 1..nSeeds : workers[w].indices[k] = v}) = 1
                /\ workers[w].indices = init_generator(nSeeds, rngSeed, 0).indices
                /\ \A w2 \in WorkerNames :
                      workers[w2].started => workers[w2].indices = workers[w].indices

\* two processes with different skips, one of them not a multiple of the
\* number of seeds, hold the same list of several indices
C23_Witness ==
    /\ seedClass = "SeedGenerator"
    /\ nSeeds >= 2
    /\ workers["seq"].started
    /\ workers["chk"].started
    /\ workers["chk"].first = 1
    /\ workers["chk"].discards = <<3>>
    /\ workers["chk"].indices = workers["seq"].indices

\* C24: in maps_from_sh the chunks of shm_coeff, peak_dirs, peak_values and
\* peak_indices have the same boundaries: there are as many chunks of each,
\* chunk i has the same length in each, and row j of chunk i of each array is
\* the row of the voxel at compact position chunk_len[i] + j.
C24_SameBoundaries ==
    (op = "maps_from_sh" /\ pc \in {"pool", "done"}) =>
        /\ Len(chunks) = nbr
        /\ \A name \in {"dirs", "values", "indices"} :
              /\ Len(peakChunks[name]) = Len(chunks)
              /\ \A i \in DOMAIN chunks : Len(peakChunks[name][i]) = Len(chunks[i])
        /\ \A i \in DOMAIN chunks : \A j \in DOMAIN chunks[i] :
              LET v == MaskedVoxels(mask)[chunkLen[i] + j]
              IN  /\ chunks[i][j] = data[v]
                  /\ peakChunks.dirs[i][j] = peaks[v].ind
                  /\ peakChunks.values[i][j] = peaks[v].val
                  /\ peakChunks.indices[i][j] = peaks[v].ind

\* three masked voxels with different peaks in two chunks of unequal length
C24_Witness ==
    /\ op = "maps_from_sh"
    /\ pc = "done"
    /\ nbr = 2
    /\ Len(chunks[1]) = 2
    /\ Len(chunks[2]) = 1
    /\ peakChunks.values = <<<<0, 1>>, <<0>>>>
    /\ peakChunks.indices = <<<<-1, 0>>, <<-1>>>>
    /\ data[1] # data[2]

====
